---- MODULE Spec2Model ----
(***************************************************************************)
(* A model of codeAgentFunction, the durable workflow that provisions a    *)
(* sandbox, loads the previous messages of a project, runs the coding      *)
(* agent network, and persists the result as a Message (with a Fragment on *)
(* success).                                                               *)
(*                                                                         *)
(* Strings that the code inspects (text.includes, template literals) are   *)
(* sequences of tokens; strings that the code only passes on are plain     *)
(* strings.  An optional value is a sequence of length 0 or 1.             *)
(***************************************************************************)
EXTENDS Integers, Sequences, FiniteSets, TLC

VARIABLES
    pc,               \* position of the current execution of the function body
    crashes,          \* number of re-executions the engine has started
    memo,             \* durable step results of the run, by step id
    inflight,         \* result of a step callback that ran but is not yet recorded
    db,               \* prisma Message table of the project
    clock,            \* source of createdAt / id of new rows
    createCalls,      \* number of Sandbox.create calls that took effect
    connected,        \* sandbox ids that getSandbox was called with
    sandboxFS,        \* files of the sandbox
    sandboxId,        \* local const sandboxId
    previousMessages, \* local const previousMessages
    state,            \* createState<AgentState>: [summary, files]
    net,              \* position of network.run: [npc, iter, call, toolResult,
                      \* failed]; failed records whether the sandbox failed
                      \* the last tool step
    netMemo,          \* durable record of the completed turns of network.run
    agentCalls,       \* number of inferences of codeAgent
    written,          \* last content successfully written per path, by the tool
    post,             \* outputs of the two post agents
    sandboxUrl,       \* local const sandboxUrl
    messageCreates,   \* number of prisma.message.create calls that took effect
    returned          \* return value of the function

vars == <<pc, crashes, memo, inflight, db, clock, createCalls, connected,
          sandboxFS, sandboxId, previousMessages, state, net, netMemo,
          agentCalls, written, post, sandboxUrl, messageCreates, returned>>

----------------------------------------------------------------------------
(* Bounds of the model *)

MaxCrashes == 2
MaxBatch == 2
MaxStored == 11

(* Program constants *)

maxIter == 15
take == 10

Paths == {"app/page.tsx", "lib/util.ts"}
Contents == {"v1", "v2"}
Marker == "<task_summary>"
ErrorContent == "Something went wrong. Please try again."

StepIds == {"get-sandbox-id", "get-previous-messages", "post-agents",
            "get-sandbox-url", "save-result"}

----------------------------------------------------------------------------
(* String and array helpers of the language *)

\* String.prototype.includes on a tokenised string
Includes(text, token) == \E i \in 1..Len(text) : text[i] = token

\* truthiness of a string: the empty string is falsy
Truthy(text) == text # <<>>

\* Array.prototype.reverse
Reverse(s) == [i \in 1..Len(s) |-> s[Len(s) + 1 - i]]

Min(a, b) == IF a <= b THEN a ELSE b

----------------------------------------------------------------------------
(* get-previous-messages *)

\* orderBy: { createdAt: "desc" }
RECURSIVE OrderByCreatedAtDesc(_)
OrderByCreatedAtDesc(rows) ==
    IF rows = {} THEN <<>>
    ELSE LET newest == CHOOSE r \in rows :
                           \A q \in rows : q.createdAt <= r.createdAt
         IN  <<newest>> \o OrderByCreatedAtDesc(rows \ {newest})

\* prisma.message.findMany({ orderBy: { createdAt: "desc" }, take: 10 })
FindMany(rows) ==
    LET sorted == OrderByCreatedAtDesc(rows)
    IN  SubSeq(sorted, 1, Min(take, Len(sorted)))

\* the object pushed for one row
FormatMessage(message) ==
    [type    |-> "text",
     role    |-> IF message.role = "ASSISTANT" THEN "assistant" ELSE "user",
     content |-> message.content]

\* the for-of loop pushing onto formattedMessages
RECURSIVE FormatMessages(_)
FormatMessages(messages) ==
    IF messages = <<>> THEN <<>>
    ELSE <<FormatMessage(Head(messages))>> \o FormatMessages(Tail(messages))

\* (variant: the rows as fetched, newest first, without the final reverse)
GetPreviousMessagesUnreversed(rows) == FormatMessages(FindMany(rows))

\* the callback of step.run("get-previous-messages")
GetPreviousMessages(rows) == Reverse(FormatMessages(FindMany(rows)))

----------------------------------------------------------------------------
(* Agent state, tools and router *)

\* createState<AgentState>({ summary: "", files: {} }, ...)
CreateState == [summary |-> <<>>, files |-> <<>>]

NoCall == "none"
NoResult == [kind |-> "none", text |-> <<>>, files |-> <<>>]
NetInit == [npc |-> "idle", iter |-> 0, call |-> NoCall, toolResult |-> NoResult,
            failed |-> FALSE]
NetMemoInit == [started |-> FALSE, state |-> CreateState, net |-> NetInit]
NoOutput == [kind |-> "none", text |-> ""]
PostInit == [title |-> NoOutput, response |-> NoOutput]

\* arguments of createOrUpdateFiles accepted by createOrUpdateFilesParams
FileEntries == [path : Paths, content : Contents]
FileBatches == UNION {[1..n -> FileEntries] : n \in 0..MaxBatch}

\* arguments of readFiles accepted by readFilesParams
PathLists == {<<>>, <<"app/page.tsx">>, <<"lib/util.ts", "app/page.tsx">>}

\* arguments of terminal accepted by terminalParams
Commands == {"npm install"}

\* the tool a response of the model can request (at most one per turn); the
\* arguments of the call are drawn when its handler runs
ToolCalls == {NoCall, "terminal", "createOrUpdateFiles", "readFiles"}

\* lastAssistantTextMessageContent(result): undefined (<<>>) or <<text>>
ResponseTexts ==
    {<<>>,
     <<<<"Working", "on", "it">>>>,
     <<<<Marker, "Built", "the", "page">>>>,
     <<<<"Done", Marker, "Added", "a", "util">>>>}

\* (variant: every response text is stored, marked or not)
OnResponseAlways(summary, text) ==
    IF text # <<>> THEN text[1] ELSE summary

\* lifecycle.onResponse: the summary after a response
OnResponse(summary, text) ==
    IF text # <<>> /\ Includes(text[1], Marker) THEN text[1] ELSE summary

\* (variant: the router returns codeAgent whatever the summary)
RouterAlways(st) == TRUE

\* router: TRUE when codeAgent is returned, FALSE when nothing is returned
Router(st) == IF Truthy(st.summary) THEN FALSE ELSE TRUE

\* (variant: the loop condition admits one more turn)
WithinMaxIterOffByOne(iter) == iter <= maxIter

\* the loop condition of the network on maxIter
WithinMaxIter(iter) == iter < maxIter

\* currentFiles[file.path] = file.content
SetFile(files, path, content) ==
    [p \in (DOMAIN files) \cup {path} |->
        IF p = path THEN content ELSE files[p]]

\* the for-of loop of createOrUpdateFiles over the first n entries
RECURSIVE WriteFiles(_, _, _)
WriteFiles(files, batch, n) ==
    IF n = 0 THEN files
    ELSE SetFile(WriteFiles(files, batch, n - 1), batch[n].path, batch[n].content)

\* (variant: the step starts from an empty mapping instead of the current one)
MergeFilesReplacing(files, batch) == WriteFiles(<<>>, batch, Len(batch))

\* network.state.data.files after a createOrUpdateFiles step that returned
MergeFiles(files, batch) == WriteFiles(files, batch, Len(batch))

\* (variant: no catch, the failure leaves the handler)
TerminalResultUncaught(command, ok) ==
    IF ok THEN [kind |-> "text", text |-> <<"stdout of", command>>, files |-> <<>>]
    ELSE [kind |-> "error", text |-> <<>>, files |-> <<>>]

\* the value of the terminal step
TerminalResult(command, ok) ==
    IF ok THEN [kind |-> "text", text |-> <<"stdout of", command>>, files |-> <<>>]
    ELSE [kind |-> "text", text |-> <<"Command failed: ", "Error">>, files |-> <<>>]

\* the value of the readFiles step
ReadResult(fs, paths) ==
    [kind |-> "files", text |-> <<>>,
     files |-> [i \in 1..Len(paths) |-> [path |-> paths[i], content |-> fs[paths[i]]]]]

\* a handler that threw: the tool call is answered with an error
ToolError == [kind |-> "error", text |-> <<>>, files |-> <<>>]

----------------------------------------------------------------------------
(* Result assembly *)

\* (variant: both conditions are required for an error)
IsErrorBoth(st) == (~Truthy(st.summary)) /\ Cardinality(DOMAIN st.files) = 0

\* const isError = !summary || Object.keys(files || {}).length === 0
IsError(st) == (~Truthy(st.summary)) \/ Cardinality(DOMAIN st.files) = 0

\* `https:\\${sandbox.getHost(3000)}`
SandboxUrl(id) == <<"https:\\", [port |-> 3000, sandbox |-> id]>>

\* parseAgentOutput: the literal text of a plain or structured output
parseAgentOutput(output) == output.text

\* outputs of the title generator and of the response generator
TitleOutputs == {[kind |-> "structured", text |-> "Page"]}
ResponseOutputs == {[kind |-> "plain", text |-> "Built a page"]}

\* the row prisma.message.create stores
MessageRow(st, projectPost, url, at) ==
    IF IsError(st)
    THEN [createdAt |-> at, role |-> "ASSISTANT", type |-> "ERROR",
          content |-> ErrorContent, fragment |-> <<>>]
    ELSE [createdAt |-> at, role |-> "ASSISTANT", type |-> "RESULT",
          content |-> parseAgentOutput(projectPost.response),
          fragment |-> <<[sandboxUrl |-> url,
                          title |-> parseAgentOutput(projectPost.title),
                          files |-> st.files]>>]

\* the object the function returns
ReturnValue(st, url) ==
    [url |-> url, title |-> "Fragment", files |-> st.files, summary |-> st.summary]

----------------------------------------------------------------------------
(* Initial states *)

UserRow(at, content) ==
    [createdAt |-> at, role |-> "USER", type |-> "RESULT",
     content |-> content, fragment |-> <<>>]

AssistantRow(at, content) ==
    [createdAt |-> at, role |-> "ASSISTANT", type |-> "RESULT",
     content |-> content, fragment |-> <<>>]

\* the table when the event arrives: the prompt of the user, after an
\* earlier exchange
InitialTables ==
    {{UserRow(1, "build a page"), AssistantRow(2, "A page"),
      UserRow(3, "add a util")}}

InitLocals ==
    /\ pc = "get-sandbox-id"
    /\ inflight = <<>>
    /\ sandboxId = 0
    /\ previousMessages = <<>>
    /\ state = CreateState
    /\ net = NetInit
    /\ post = PostInit
    /\ sandboxUrl = <<>>
    /\ returned = <<>>

InitRun ==
    /\ InitLocals
    /\ crashes = 0
    /\ memo = [id \in StepIds |-> <<>>]
    /\ createCalls = 0
    /\ connected = {}
    /\ sandboxFS = <<>>
    /\ netMemo = NetMemoInit
    /\ agentCalls = 0
    /\ written = <<>>
    /\ messageCreates = 0

Init ==
    /\ InitRun
    /\ db \in InitialTables
    /\ clock = 4

----------------------------------------------------------------------------
(* The workflow engine: step.run *)

locals == <<sandboxId, previousMessages, state, net, post, sandboxUrl, returned>>
durable == <<db, clock, createCalls, connected, sandboxFS, netMemo, agentCalls,
             written, messageCreates>>

\* (variant: the callback runs whether or not a result is recorded)
FreshIgnoringMemo(id) == pc = id /\ inflight = <<>>

\* step.run(id, callback) when the step has no recorded result: the callback
\* runs, and its value is in flight to the engine
Fresh(id) == pc = id /\ memo[id] = <<>> /\ inflight = <<>>

\* the engine records the value of the callback as the result of the step
Commit ==
    /\ pc \in StepIds
    /\ inflight # <<>>
    /\ memo' = [memo EXCEPT ![pc] = inflight]
    /\ inflight' = <<>>
    /\ UNCHANGED <<pc, crashes, locals, durable>>

\* the execution dies (process crash, timeout, thrown error) and the engine
\* starts the function body again; only durable state survives
Crash ==
    /\ pc # "done"
    /\ crashes < MaxCrashes
    /\ crashes' = crashes + 1
    /\ pc' = "get-sandbox-id"
    /\ inflight' = <<>>
    /\ sandboxId' = 0
    /\ previousMessages' = <<>>
    /\ state' = CreateState
    /\ net' = NetInit
    /\ post' = PostInit
    /\ sandboxUrl' = <<>>
    /\ returned' = <<>>
    /\ UNCHANGED <<memo, durable>>

----------------------------------------------------------------------------
(* Steps before the network *)

\* callback of get-sandbox-id: Sandbox.create, setTimeout, return sandboxId
RunGetSandboxId ==
    /\ Fresh("get-sandbox-id")
    /\ createCalls' = createCalls + 1
    /\ inflight' = <<createCalls + 1>>
    /\ UNCHANGED <<pc, crashes, memo, locals, db, clock, connected, sandboxFS,
                   netMemo, agentCalls, written, messageCreates>>

\* const sandboxId = await step.run("get-sandbox-id", ...)
ReturnGetSandboxId ==
    /\ pc = "get-sandbox-id"
    /\ memo[pc] # <<>>
    /\ sandboxId' = memo[pc][1]
    /\ pc' = "get-previous-messages"
    /\ UNCHANGED <<crashes, memo, inflight, previousMessages, state, net, post,
                   sandboxUrl, returned, durable>>

\* callback of get-previous-messages
RunGetPreviousMessages ==
    /\ Fresh("get-previous-messages")
    /\ inflight' = <<GetPreviousMessages(db)>>
    /\ UNCHANGED <<pc, crashes, memo, locals, durable>>

\* const previousMessages = await step.run("get-previous-messages", ...)
ReturnGetPreviousMessages ==
    /\ pc = "get-previous-messages"
    /\ memo[pc] # <<>>
    /\ previousMessages' = memo[pc][1]
    /\ pc' = "create-state"
    /\ UNCHANGED <<crashes, memo, inflight, sandboxId, state, net, post,
                   sandboxUrl, returned, durable>>

\* const state = createState<AgentState>(...)
DoCreateState ==
    /\ pc = "create-state"
    /\ state' = CreateState
    /\ pc' = "network.run"
    /\ UNCHANGED <<crashes, memo, inflight, sandboxId, previousMessages, net,
                   post, sandboxUrl, returned, durable>>

----------------------------------------------------------------------------
(* network.run: the router loop, each completed turn recorded by the engine *)

Checkpoint == netMemo' = [started |-> TRUE, state |-> state', net |-> net']

outsideNet == <<pc, crashes, memo, inflight, sandboxId, previousMessages, post,
                sandboxUrl, returned, db, clock, createCalls, messageCreates>>

\* network.run(event.data.value, { state }): a first execution enters the loop,
\* a re-execution is brought to the last recorded turn by the recorded results
NetworkRun ==
    /\ pc = "network.run"
    /\ pc' = "network"
    /\ IF netMemo.started
       THEN /\ state' = netMemo.state
            /\ net' = netMemo.net
            /\ UNCHANGED netMemo
       ELSE /\ net' = [NetInit EXCEPT !.npc = "router"]
            /\ UNCHANGED state
            /\ Checkpoint
    /\ UNCHANGED <<crashes, memo, inflight, sandboxId, previousMessages, post,
                   sandboxUrl, returned, db, clock, createCalls, connected,
                   sandboxFS, agentCalls, written, messageCreates>>

\* one evaluation of the router and of the loop condition on maxIter
RouterStep ==
    /\ pc = "network"
    /\ net.npc = "router"
    /\ net' = [net EXCEPT !.npc = IF ~Router(state) THEN "completed"
                                   ELSE IF ~WithinMaxIter(net.iter) THEN "capped"
                                   ELSE "agent",
                          !.call = NoCall, !.toolResult = NoResult,
                          !.failed = FALSE]
    /\ UNCHANGED state
    /\ Checkpoint
    /\ UNCHANGED <<outsideNet, connected, sandboxFS, agentCalls, written>>

\* one inference of codeAgent followed by lifecycle.onResponse
AgentRespond ==
    /\ pc = "network"
    /\ net.npc = "agent"
    /\ \E text \in ResponseTexts, call \in ToolCalls :
          /\ state' = [state EXCEPT !.summary = OnResponse(state.summary, text)]
          /\ net' = [net EXCEPT !.npc = "tools", !.call = call]
    /\ agentCalls' = agentCalls + 1
    /\ Checkpoint
    /\ UNCHANGED <<outsideNet, connected, sandboxFS, written>>

\* the turn ends: the counter of the network advances and the router is next
EndTurn(result, failed) ==
    net' = [net EXCEPT !.npc = "router", !.iter = net.iter + 1,
                       !.toolResult = result, !.failed = failed]

\* the response requested no tool
NoTool ==
    /\ pc = "network"
    /\ net.npc = "tools"
    /\ net.call = NoCall
    /\ EndTurn(NoResult, FALSE)
    /\ UNCHANGED state
    /\ Checkpoint
    /\ UNCHANGED <<outsideNet, connected, sandboxFS, agentCalls, written>>

\* terminalTool.handler: ok is whether getSandbox and commands.run succeed
TerminalTool ==
    /\ pc = "network"
    /\ net.npc = "tools"
    /\ net.call = "terminal"
    /\ \E command \in Commands, ok \in BOOLEAN :
          EndTurn(TerminalResult(command, ok), ~ok)
    /\ connected' = connected \cup {sandboxId}
    /\ UNCHANGED state
    /\ Checkpoint
    /\ UNCHANGED <<outsideNet, sandboxFS, agentCalls, written>>

\* the last content a batch gives a path
LastIn(batch, path) ==
    batch[CHOOSE i \in 1..Len(batch) :
              /\ batch[i].path = path
              /\ \A j \in (i + 1)..Len(batch) : batch[j].path # path].content

\* the record of successful writes after a batch
Recorded(old, batch) ==
    [p \in (DOMAIN old) \cup {batch[i].path : i \in 1..Len(batch)} |->
        IF \E i \in 1..Len(batch) : batch[i].path = p
        THEN LastIn(batch, p) ELSE old[p]]

\* createOrUpdateFilesTool.handler. Either every entry of the batch is written
\* and the step returns the mapping, or getSandbox or a write fails after the
\* entries of `done` were written, and the step throws
CreateOrUpdateFilesTool ==
    /\ pc = "network"
    /\ net.npc = "tools"
    /\ net.call = "createOrUpdateFiles"
    /\ \/ \E files \in FileBatches :
              /\ sandboxFS' = WriteFiles(sandboxFS, files, Len(files))
              /\ state' = [state EXCEPT
                             !.files = MergeFiles(state.files, files)]
              /\ written' = Recorded(written, files)
              /\ EndTurn(NoResult, FALSE)
       \/ \E done \in FileBatches :
              /\ Len(done) < MaxBatch
              /\ sandboxFS' = WriteFiles(sandboxFS, done, Len(done))
              /\ UNCHANGED <<state, written>>
              /\ EndTurn(ToolError, TRUE)
    /\ connected' = connected \cup {sandboxId}
    /\ Checkpoint
    /\ UNCHANGED <<outsideNet, agentCalls>>

\* readFilesTool.handler: throws when getSandbox or a read fails
ReadFilesTool ==
    /\ pc = "network"
    /\ net.npc = "tools"
    /\ net.call = "readFiles"
    /\ \E files \in PathLists, ok \in BOOLEAN :
          /\ ok => \A i \in 1..Len(files) : files[i] \in DOMAIN sandboxFS
          /\ EndTurn(IF ok THEN ReadResult(sandboxFS, files) ELSE ToolError, ~ok)
    /\ connected' = connected \cup {sandboxId}
    /\ UNCHANGED state
    /\ Checkpoint
    /\ UNCHANGED <<outsideNet, sandboxFS, agentCalls, written>>

\* const result = await network.run(...)
NetworkReturn ==
    /\ pc = "network"
    /\ net.npc \in {"completed", "capped"}
    /\ pc' = "post-agents"
    /\ UNCHANGED <<crashes, memo, inflight, locals, durable>>

----------------------------------------------------------------------------
(* Post agents, save and return *)

\* fragmentTitleGenerator.run and responseGenerator.run on the summary
RunPostAgents ==
    /\ Fresh("post-agents")
    /\ \E t \in TitleOutputs, r \in ResponseOutputs :
          inflight' = <<[title |-> t, response |-> r]>>
    /\ UNCHANGED <<pc, crashes, memo, locals, durable>>

\* const { output: fragmentTitleOutput } = ...; const { output: responseOutput } = ...
ReturnPostAgents ==
    /\ pc = "post-agents"
    /\ memo[pc] # <<>>
    /\ post' = memo[pc][1]
    /\ pc' = "get-sandbox-url"
    /\ UNCHANGED <<crashes, memo, inflight, sandboxId, previousMessages, state,
                   net, sandboxUrl, returned, durable>>

\* callback of get-sandbox-url
RunGetSandboxUrl ==
    /\ Fresh("get-sandbox-url")
    /\ connected' = connected \cup {sandboxId}
    /\ inflight' = <<SandboxUrl(sandboxId)>>
    /\ UNCHANGED <<pc, crashes, memo, locals, db, clock, createCalls, sandboxFS,
                   netMemo, agentCalls, written, messageCreates>>

\* const sandboxUrl = await step.run("get-sandbox-url", ...)
ReturnGetSandboxUrl ==
    /\ pc = "get-sandbox-url"
    /\ memo[pc] # <<>>
    /\ sandboxUrl' = memo[pc][1]
    /\ pc' = "save-result"
    /\ UNCHANGED <<crashes, memo, inflight, sandboxId, previousMessages, state,
                   net, post, returned, durable>>

\* callback of save-result: prisma.message.create
RunSaveResult ==
    /\ Fresh("save-result")
    /\ LET row == MessageRow(state, post, sandboxUrl, clock)
       IN  /\ db' = db \cup {row}
           /\ inflight' = <<row>>
    /\ clock' = clock + 1
    /\ messageCreates' = messageCreates + 1
    /\ UNCHANGED <<pc, crashes, memo, locals, createCalls, connected, sandboxFS,
                   netMemo, agentCalls, written>>

\* await step.run("save-result", ...)
ReturnSaveResult ==
    /\ pc = "save-result"
    /\ memo[pc] # <<>>
    /\ pc' = "return"
    /\ UNCHANGED <<crashes, memo, inflight, locals, durable>>

\* return { url, title, files, summary }
Return ==
    /\ pc = "return"
    /\ returned' = <<ReturnValue(state, sandboxUrl)>>
    /\ pc' = "done"
    /\ UNCHANGED <<crashes, memo, inflight, sandboxId, previousMessages, state,
                   net, post, sandboxUrl, durable>>

----------------------------------------------------------------------------
(* Specifications *)

Next ==
    \/ RunGetSandboxId
    \/ ReturnGetSandboxId
    \/ RunGetPreviousMessages
    \/ ReturnGetPreviousMessages
    \/ DoCreateState
    \/ NetworkRun
    \/ RouterStep
    \/ AgentRespond
    \/ NoTool
    \/ TerminalTool
    \/ CreateOrUpdateFilesTool
    \/ ReadFilesTool
    \/ NetworkReturn
    \/ RunPostAgents
    \/ ReturnPostAgents
    \/ RunGetSandboxUrl
    \/ ReturnGetSandboxUrl
    \/ RunSaveResult
    \/ ReturnSaveResult
    \/ Return
    \/ Commit
    \/ Crash

Spec == Init /\ [][Next]_vars

----------------------------------------------------------------------------
(* A first execution that no crash interrupts, up to the return of         *)
(* network.run                                                              *)

InitNetwork ==
    /\ InitRun
    /\ db \in InitialTables
    /\ clock = 4

NextNetwork ==
    \/ ReturnGetSandboxId
    \/ ReturnGetPreviousMessages
    \/ DoCreateState
    \/ NetworkRun
    \/ RouterStep
    \/ AgentRespond
    \/ NoTool
    \/ TerminalTool
    \/ CreateOrUpdateFilesTool
    \/ ReadFilesTool
    \/ NetworkReturn
    \/ RunGetSandboxId
    \/ RunGetPreviousMessages
    \/ Commit

\* every await of the function body returns: the steps and the turns of the
\* loop are sequential, and none waits for another process
SpecNetwork == InitNetwork /\ [][NextNetwork]_vars /\ WF_vars(NextNetwork)

----------------------------------------------------------------------------
(* get-previous-messages over the tables a project can hold *)

\* MessageRole
Roles == {"USER", "ASSISTANT"}

\* a row is stored before the step reads the table; every row has a content
\* of its own
InsertRow ==
    /\ Fresh("get-previous-messages")
    /\ Cardinality(db) < MaxStored
    /\ \E role \in Roles :
          db' = db \cup {[createdAt |-> clock, role |-> role, type |-> "RESULT",
                          content |-> ToString(clock), fragment |-> <<>>]}
    /\ clock' = clock + 1
    /\ UNCHANGED <<pc, crashes, memo, inflight, locals, createCalls, connected,
                   sandboxFS, netMemo, agentCalls, written, messageCreates>>

InitMessages ==
    /\ InitRun
    /\ db = {}
    /\ clock = 1

NextMessages ==
    \/ RunGetSandboxId
    \/ ReturnGetSandboxId
    \/ InsertRow
    \/ RunGetPreviousMessages
    \/ ReturnGetPreviousMessages
    \/ Commit

SpecMessages == InitMessages /\ [][NextMessages]_vars

----------------------------------------------------------------------------
(* Properties *)

\* the rows this run created
RunRows == {m \in db : m.createdAt >= clock - messageCreates}

AfterNetworkRun == {"network", "post-agents", "get-sandbox-url", "save-result",
                    "return", "done"}

\* C1: when the run has completed, every Message it persisted has a Fragment
\* (and type RESULT) if the final summary and the final files are both
\* non-empty, and otherwise has type ERROR, the fixed content and no Fragment
C1_FragmentIffSummaryAndFiles ==
    pc = "done" =>
        /\ RunRows # {}
        /\ \A m \in RunRows :
              IF state.summary # <<>> /\ DOMAIN state.files # {}
              THEN m.fragment # <<>> /\ m.type = "RESULT"
              ELSE /\ m.fragment = <<>>
                   /\ m.type = "ERROR"
                   /\ m.content = "Something went wrong. Please try again."

\* a completed run with a summary and no file, stored as an error
C1_Witness ==
    /\ pc = "done"
    /\ state.summary # <<>>
    /\ DOMAIN state.files = {}
    /\ \E m \in RunRows : m.type = "ERROR"

\* C2: a run that has completed created exactly one Message row
C2_ExactlyOneMessage ==
    pc = "done" => messageCreates = 1

\* C3: the loop never runs more than maxIter turns, and network.run always
\* ends, completed (summary set) or capped (maxIter turns run)
C3_LoopBoundedAndTerminates ==
    /\ [](net.iter <= maxIter /\ agentCalls <= maxIter)
    /\ [](net.npc = "completed" => state.summary # <<>>)
    /\ [](net.npc = "capped" => net.iter = maxIter /\ state.summary = <<>>)
    /\ <>(net.npc \in {"completed", "capped"})

\* the loop ended by the cap, after maxIter inferences
C3_Witness ==
    /\ net.npc = "capped"
    /\ agentCalls = maxIter

\* C4: once a summary is stored, codeAgent is not inferred again, and the
\* router selects no agent
C4_NoTurnAfterSummary ==
    [][netMemo.state.summary # <<>> =>
          /\ agentCalls' = agentCalls
          /\ net'.npc \notin {"agent", "capped"}
          /\ (net.npc = "router" /\ pc' = pc => net'.npc = "completed")]_vars

\* the router returned no agent after a summary, before the cap
C4_Witness ==
    /\ pc = "network"
    /\ net.npc = "completed"
    /\ net.iter < maxIter
    /\ net.iter > 1

\* C5: a run classified as an error returns an empty files mapping
C5_NoFilesReturnedOnError ==
    pc = "done" /\ IsError(state) => DOMAIN returned[1].files = {}

\* the newest rows of a table, at most `take` of them
Newest(rows) ==
    {r \in rows : Cardinality({q \in rows : q.createdAt > r.createdAt}) < take}

\* the position of a row among rows, oldest first
Rank(r, rows) == Cardinality({q \in rows : q.createdAt <= r.createdAt})

\* what the step get-previous-messages has produced, if it has
Loaded ==
    IF pc = "get-previous-messages" /\ inflight # <<>> THEN inflight
    ELSE memo["get-previous-messages"]

\* C6: the loaded context holds exactly the (at most 10) newest rows of the
\* table, oldest first, each with its content and with role assistant iff
\* the row has role ASSISTANT
C6_PreviousMessagesChronological ==
    /\ Loaded # <<>> =>
          LET loaded == Loaded[1]
              newest == Newest(db)
          IN  /\ Len(loaded) <= take
              /\ Len(loaded) = Cardinality(newest)
              /\ \A r \in newest :
                    LET m == loaded[Rank(r, newest)]
                    IN  /\ m.content = r.content
                        /\ (m.role = "assistant") <=> (r.role = "ASSISTANT")
                        /\ m.role \in {"assistant", "user"}
    /\ pc = "create-state" => previousMessages = Loaded[1]

\* a table of more than `take` rows was loaded
C6_Witness ==
    /\ pc = "create-state"
    /\ Cardinality(db) > take
    /\ Len(previousMessages) = take
    /\ \E i \in 1..take : previousMessages[i].role = "assistant"
    /\ \E i \in 1..take : previousMessages[i].role = "user"

\* C7: a terminal step whose sandbox failed returns a string beginning
\* "Command failed:", leaves summary and files as they were, and hands the
\* loop to the router
C7_TerminalFailureIsAString ==
    [][(pc = "network" /\ net.npc = "tools" /\ net.call = "terminal" /\ pc' = pc)
          => /\ net'.failed =>
                   /\ net'.toolResult.kind = "text"
                   /\ Head(net'.toolResult.text) = "Command failed: "
             /\ net'.toolResult.kind # "error"
             /\ state' = state
             /\ net'.npc = "router"
             /\ net'.iter = net.iter + 1]_vars

\* a terminal step failed after files were written; the router is next
C7_Witness ==
    /\ pc = "network"
    /\ net.npc = "router"
    /\ net.call = "terminal"
    /\ net.failed
    /\ Head(net.toolResult.text) = "Command failed: "
    /\ DOMAIN state.files # {}

\* C8: once get-sandbox-id has a recorded result, Sandbox.create is not called
\* again, and every step that connects to a sandbox uses the recorded id
C8_SandboxCreatedOnce ==
    /\ [](memo["get-sandbox-id"] # <<>> =>
             /\ connected \subseteq {memo["get-sandbox-id"][1]}
             /\ sandboxId \in {0, memo["get-sandbox-id"][1]})
    /\ [](memo["get-sandbox-id"] = <<>> => connected = {})
    /\ [][memo["get-sandbox-id"] # <<>> =>
             /\ createCalls' = createCalls
             /\ memo'["get-sandbox-id"] = memo["get-sandbox-id"]]_vars

\* a re-execution went past get-sandbox-id after the network had started, and
\* a tool connected to the sandbox
C8_Witness ==
    /\ crashes > 0
    /\ pc = "get-previous-messages"
    /\ netMemo.started
    /\ connected # {}
    /\ createCalls = 1
    /\ sandboxId = memo["get-sandbox-id"][1]

SameFiles(f, g) ==
    /\ DOMAIN f = DOMAIN g
    /\ \A p \in DOMAIN f : f[p] = g[p]

\* C9: state.files holds, for every path a successful call wrote, the content
\* of the last write; no path leaves it; the fragment and the return value hold
\* the same mapping
C9_FilesCumulative ==
    /\ [](pc \in AfterNetworkRun => SameFiles(state.files, written))
    /\ [](\A m \in RunRows :
             m.fragment # <<>> => SameFiles(m.fragment[1].files, written))
    /\ [](returned # <<>> => SameFiles(returned[1].files, written))
    /\ [][DOMAIN netMemo.state.files \subseteq DOMAIN netMemo'.state.files]_vars

\* two paths written by different calls, one of them overwritten, persisted
C9_Witness ==
    /\ pc = "done"
    /\ DOMAIN written = Paths
    /\ written["app/page.tsx"] = "v2"
    /\ written["lib/util.ts"] = "v1"
    /\ net.iter > 2
    /\ \E m \in RunRows : m.fragment # <<>>

\* C10: summary is empty or a response text that contains the marker; a
\* response changes it only to such a text, and no tool step changes it
C10_SummaryOnlyFromMarkedResponse ==
    /\ [](state.summary = <<>> \/
             (Includes(state.summary, Marker) /\ <<state.summary>> \in ResponseTexts))
    /\ [][(pc = "network" /\ net.npc = "tools" /\ pc' = pc)
             => state'.summary = state.summary]_vars
    /\ [][(pc = "network" /\ net.npc = "agent" /\ pc' = pc)
             => (state'.summary = state.summary
                 \/ Includes(state'.summary, Marker))]_vars

\* a summary stored after turns whose text had no marker
C10_Witness ==
    /\ pc = "network"
    /\ net.npc = "router"
    /\ state.summary # <<>>
    /\ net.iter > 2
    /\ net.call = "terminal"

====
